---- MODULE Spec2Model ----
(***************************************************************************)
(* The interaction state machine of src/components/Terminal.tsx: the step  *)
(* counter, the auto-type interval and its settle timeout, the user input  *)
(* handlers, the history of committed lines and the Run Agent gate.        *)
(*                                                                         *)
(* Strings are sequences of one-character strings.  Every action is one    *)
(* callback or handler run to completion together with the render and the  *)
(* [step] effect (cleanup, then body) that its state updates trigger.      *)
(***************************************************************************)
EXTENDS Integers, Sequences, FiniteSets

\* ------------------------------------------------------------ bounds ----
MaxPad == 1          \* most spaces the user puts before or after an answer
MaxRuns == 2         \* direct calls of handleRunAgent that are followed

\* --------------------------------------------------------- constants ----
PROMPTS ==
  << <<"E","n","t","e","r"," ","G","i","t","h","u","b"," ","R","e","p","o","s","i","t","o","r","y"," ","L","i","n","k">>,
     <<"E","n","t","e","r"," ","T","e","a","m"," ","N","a","m","e">>,
     <<"E","n","t","e","r"," ","T","e","a","m"," ","L","e","a","d","e","r"," ","N","a","m","e">> >>

TYPING_SPEED == 40
SETTLE_DELAY == 300
\* interval callbacks that can run before a timeout scheduled earlier is due
TicksBeforeSettle == SETTLE_DELAY \div TYPING_SPEED

\* the spec's N and DONE, derived from the prompt list
N == Len(PROMPTS)
DONE == 2 * N

\* ------------------------------------------------------ user's inputs ----
Keys == {"Enter", "a"}

\* what the user means to answer: one word, and two words with a space inside
Cores == {<<>>, <<"a">>, <<"a", " ", "a">>}

Spaces(n) == [i \in 1..n |-> " "]

\* the values the input's change event can carry
Texts == {Spaces(l) \o core \o Spaces(r) : l \in 0..MaxPad, r \in 0..MaxPad, core \in Cores}

\* ------------------------------------------------------ string helpers ----
IsSpace(c) == c = " "

RECURSIVE TrimStart(_)
TrimStart(s) ==
  IF s # <<>> /\ IsSpace(Head(s)) THEN TrimStart(Tail(s)) ELSE s

RECURSIVE TrimEnd(_)
TrimEnd(s) ==
  IF s # <<>> /\ IsSpace(s[Len(s)]) THEN TrimEnd(SubSeq(s, 1, Len(s) - 1)) ELSE s

\* mutant of Trim: the text is used as typed
TrimOmitted(s) == s

\* String.prototype.trim
Trim(s) == TrimEnd(TrimStart(s))

\* String.prototype.charAt with a 0-based index: "" when out of range
CharAt(s, i) == IF i >= 0 /\ i < Len(s) THEN <<s[i + 1]>> ELSE <<>>

Digits == <<"0","1","2","3","4","5","6","7","8","9">>

\* Number.prototype.toString on a non-negative integer
RECURSIVE ToString(_)
ToString(n) ==
  IF n < 10 THEN <<Digits[n + 1]>>
  ELSE ToString(n \div 10) \o <<Digits[(n % 10) + 1]>>

Max(a, b) == IF a >= b THEN a ELSE b

\* --------------------------------------------------------------- state ----
VARIABLES
  history,        \* useState<TerminalLine[]>
  step,           \* useState<number>
  currentText,    \* useState<string>
  repoLink,       \* useState<string>
  teamName,       \* useState<string>
  leaderName,     \* useState<string>
  isLoading,      \* useState<boolean>
  isTyping,       \* useState<boolean>
  intervalActive, \* the effect's setInterval is scheduled and not cleared
  charIndex,      \* the effect closure's let charIndex
  targetText,     \* the effect closure's const targetText
  settleTimers,   \* pending 300 ms timeouts, oldest first: [text, due]
  agentTimers,    \* pending 3000 ms timeouts of handleRunAgent: their snapshots
  agentLog,       \* what console.log("Agent Started", ...) has received
  mounted,        \* the component is mounted
  batched,        \* the root defers functional updaters to the next render
  now,            \* last reading of the millisecond clock
  event           \* the callback or handler that ran last

vars == <<history, step, currentText, repoLink, teamName, leaderName,
          isLoading, isTyping, intervalActive, charIndex, targetText,
          settleTimers, agentTimers, agentLog, mounted, batched, now, event>>

answerVars == <<repoLink, teamName, leaderName>>
timerVars == <<intervalActive, charIndex, targetText, settleTimers>>
agentVars == <<agentTimers, agentLog>>

\* the three collected values as the spec's Answers record, slots 0..N-1
Answers == [i \in 0..2 |-> CASE i = 0 -> repoLink [] i = 1 -> teamName [] i = 2 -> leaderName]

Line(id, type, text) == [id |-> id, type |-> type, text |-> text]

\* mutant of Commit: the spread of prev is forgotten
CommitReplacing(prev, line) == <<line>>

\* mutant of Commit: the new line is put first
CommitPrepending(prev, line) == <<line>> \o prev

\* setHistory(prev => [...prev, line])
Commit(prev, line) == Append(prev, line)

\* mutant of SystemLine: the line takes the text shown instead of the prompt
SystemLineOfShownText(id, target, shown) == Line(id, "system", shown)

\* the line the settle timeout commits: { id, type: 'system', text: targetText }
SystemLine(id, target, shown) == Line(id, "system", target)

\* the line handleKeyDown commits: { id, type: 'user', text: val }
UserLine(id, val) == Line(id, "user", val)

\* ----------------------------------------------------------- rendering ----
\* mutant of isButtonEnabled: the !isLoading conjunct is forgotten
isButtonEnabledWhileLoading ==
  step = 6 /\ repoLink # <<>> /\ teamName # <<>> /\ leaderName # <<>>

isButtonEnabled ==
  step = 6 /\ ~isLoading /\ repoLink # <<>> /\ teamName # <<>> /\ leaderName # <<>>

\* mutant of InputRendered: the input is rendered at every step
InputAlwaysRendered == mounted

\* the hidden input exists in the DOM
InputRendered == mounted /\ step % 2 # 0 /\ ~isLoading

\* mutant of ButtonClickable: the disabled attribute is forgotten
ButtonAlwaysClickable == mounted

\* the Run Agent button accepts a click
ButtonClickable == mounted /\ isButtonEnabled

\* the spec's derived ActionState
ActionState ==
  IF isLoading THEN "RUNNING" ELSE IF isButtonEnabled THEN "ENABLED" ELSE "IDLE"

\* ---------------------------------------------------------------- Init ----
\* after the first render and the first run of the [step] effect at step 0
Init ==
  /\ history = <<>>
  /\ step = 0
  /\ currentText = <<>>
  /\ repoLink = <<>>
  /\ teamName = <<>>
  /\ leaderName = <<>>
  /\ isLoading = FALSE
  /\ isTyping = TRUE
  /\ intervalActive = TRUE
  /\ charIndex = 0
  /\ targetText = PROMPTS[1]
  /\ settleTimers = <<>>
  /\ agentTimers = <<>>
  /\ agentLog = <<>>
  /\ mounted = TRUE
  /\ batched \in BOOLEAN
  /\ now = 0
  /\ event = "mount"

\* ------------------------------------------------------------- effects ----
\* mutant of AdvanceStep: the step after next
AdvanceStepSkips(prev) == prev + 2

\* setStep(prev => prev + 1)
AdvanceStep(prev) == prev + 1

\* mutant of IsSystemStep: the bound is one prompt short
IsSystemStepStopsEarly(s) == s % 2 = 0 /\ s < 4

\* the [step] effect guard: a system step (0, 2, 4)
IsSystemStep(s) == s % 2 = 0 /\ s < 6

\* The [step] effect after step became s: the previous run's cleanup
\* (clearInterval) and then the body.  text is what the caller has set
\* currentText to.
AutoTypeEffect(s, text) ==
  IF IsSystemStep(s)
  THEN /\ isTyping' = TRUE
       /\ currentText' = <<>>
       /\ intervalActive' = TRUE
       /\ charIndex' = 0
       /\ targetText' = PROMPTS[(s \div 2) + 1]
  ELSE /\ isTyping' = isTyping
       /\ currentText' = text
       /\ intervalActive' = FALSE
       /\ UNCHANGED <<charIndex, targetText>>

\* The index the functional updater of the interval callback reads.  The
\* updater prev => prev + targetText.charAt(charIndex) closes over the
\* mutable charIndex, which the callback increments right after queueing
\* it.  A root that flushes the update inside setCurrentText runs the
\* updater before the increment; a root that batches runs it at the next
\* render, after the increment.  Which root renders Terminal is not part of
\* the sources, so batched is chosen in Init.
UpdaterIndex == IF batched THEN charIndex + 1 ELSE charIndex

\* mutant of IntervalTick: clearInterval(intervalId) is forgotten
IntervalTickKeepsInterval ==
  /\ intervalActive
  /\ settleTimers = <<>> \/ charIndex < TicksBeforeSettle
  /\ event' = "interval"
  /\ IF charIndex < Len(targetText)
     THEN /\ currentText' = currentText \o CharAt(targetText, UpdaterIndex)
          /\ charIndex' = charIndex + 1
          /\ UNCHANGED <<intervalActive, isTyping, settleTimers>>
     ELSE /\ intervalActive' = intervalActive
          /\ isTyping' = FALSE
          /\ settleTimers' = Append(settleTimers, [text |-> targetText, due |-> now + 1])
          /\ UNCHANGED <<currentText, charIndex>>
  /\ UNCHANGED <<history, step, answerVars, isLoading, targetText, agentVars,
                 mounted, batched, now>>

\* the setInterval callback
IntervalTick ==
  /\ intervalActive
  /\ settleTimers = <<>> \/ charIndex < TicksBeforeSettle
  /\ event' = "interval"
  /\ IF charIndex < Len(targetText)
     THEN /\ currentText' = currentText \o CharAt(targetText, UpdaterIndex)
          /\ charIndex' = charIndex + 1
          /\ UNCHANGED <<intervalActive, isTyping, settleTimers>>
     ELSE /\ intervalActive' = FALSE
          /\ isTyping' = FALSE
          /\ settleTimers' = Append(settleTimers, [text |-> targetText, due |-> now + 1])
          /\ UNCHANGED <<currentText, charIndex>>
  /\ UNCHANGED <<history, step, answerVars, isLoading, targetText, agentVars,
                 mounted, batched, now>>

\* the setTimeout(..., 300) callback; it is not cleared by the cleanup, and
\* React drops the updates of an unmounted component
SettleTimeout ==
  /\ settleTimers # <<>>
  /\ event' = "settle"
  /\ settleTimers' = Tail(settleTimers)
  /\ IF mounted
     THEN LET t == Head(settleTimers)
              at == Max(now, t.due)
          IN /\ now' = at
             /\ history' = Commit(history, SystemLine(ToString(at), t.text, currentText))
             /\ step' = AdvanceStep(step)
             /\ AutoTypeEffect(AdvanceStep(step), <<>>)
     ELSE UNCHANGED <<now, history, step, isTyping, currentText, intervalActive,
                      charIndex, targetText>>
  /\ UNCHANGED <<answerVars, isLoading, agentVars, mounted, batched>>

\* ------------------------------------------------------------ handlers ----
\* mutant of handleUserInputChange: the step test is forgotten
handleUserInputChangeUnguarded(value) ==
  /\ event' = "change"
  /\ currentText' = value
  /\ UNCHANGED <<history, step, answerVars, isLoading, isTyping, timerVars,
                 agentVars, mounted, batched, now>>

\* mutant of handleUserInputChange: the turn is told by isTyping, as in handleKeyDown
handleUserInputChangeByTypingFlag(value) ==
  /\ event' = "change"
  /\ currentText' = IF ~isTyping THEN value ELSE currentText
  /\ UNCHANGED <<history, step, answerVars, isLoading, isTyping, timerVars,
                 agentVars, mounted, batched, now>>

handleUserInputChange(value) ==
  /\ event' = "change"
  /\ currentText' = IF step % 2 # 0 THEN value ELSE currentText
  /\ UNCHANGED <<history, step, answerVars, isLoading, isTyping, timerVars,
                 agentVars, mounted, batched, now>>

\* mutant of handleKeyDown: the emptiness test is forgotten
handleKeyDownAcceptsBlank(key) ==
  /\ event' = IF key = "Enter" THEN "enter" ELSE "key"
  /\ IF key = "Enter" /\ ~isTyping
     THEN LET val == Trim(currentText) IN
          \E d \in 0..1 :
            /\ now' = now + d
            /\ repoLink' = IF step = 1 THEN val ELSE repoLink
            /\ teamName' = IF step = 3 THEN val ELSE teamName
            /\ leaderName' = IF step = 5 THEN val ELSE leaderName
            /\ history' = Commit(history, UserLine(ToString(now + d), val))
            /\ step' = AdvanceStep(step)
            /\ AutoTypeEffect(AdvanceStep(step), <<>>)
            /\ UNCHANGED settleTimers
     ELSE UNCHANGED <<now, answerVars, history, step, isTyping, currentText,
                      timerVars>>
  /\ UNCHANGED <<isLoading, agentVars, mounted, batched>>

\* mutant of handleKeyDown: the third answer is saved into the second slot
handleKeyDownSavesWrongSlot(key) ==
  /\ event' = IF key = "Enter" THEN "enter" ELSE "key"
  /\ IF key = "Enter" /\ ~isTyping /\ Len(Trim(currentText)) > 0
     THEN LET val == Trim(currentText) IN
          \E d \in 0..1 :
            /\ now' = now + d
            /\ repoLink' = IF step = 1 THEN val ELSE repoLink
            /\ teamName' = IF step = 3 \/ step = 5 THEN val ELSE teamName
            /\ leaderName' = leaderName
            /\ history' = Commit(history, UserLine(ToString(now + d), val))
            /\ step' = AdvanceStep(step)
            /\ AutoTypeEffect(AdvanceStep(step), <<>>)
            /\ UNCHANGED settleTimers
     ELSE UNCHANGED <<now, answerVars, history, step, isTyping, currentText,
                      timerVars>>
  /\ UNCHANGED <<isLoading, agentVars, mounted, batched>>

handleKeyDown(key) ==
  /\ event' = IF key = "Enter" THEN "enter" ELSE "key"
  /\ IF key = "Enter" /\ ~isTyping /\ Len(Trim(currentText)) > 0
     THEN LET val == Trim(currentText) IN
          \E d \in 0..1 :
            /\ now' = now + d
            /\ repoLink' = IF step = 1 THEN val ELSE repoLink
            /\ teamName' = IF step = 3 THEN val ELSE teamName
            /\ leaderName' = IF step = 5 THEN val ELSE leaderName
            /\ history' = Commit(history, UserLine(ToString(now + d), val))
            /\ step' = AdvanceStep(step)
            /\ AutoTypeEffect(AdvanceStep(step), <<>>)
            /\ UNCHANGED settleTimers
     ELSE UNCHANGED <<now, answerVars, history, step, isTyping, currentText,
                      timerVars>>
  /\ UNCHANGED <<isLoading, agentVars, mounted, batched>>

\* mutant of handleRunAgent: the guard is left to the button's disabled attribute
handleRunAgentUnguarded ==
  /\ event' = "run"
  /\ isLoading' = TRUE
  /\ agentTimers' = Append(agentTimers,
       [repoLink |-> repoLink, teamName |-> teamName, leaderName |-> leaderName])
  /\ UNCHANGED <<history, step, currentText, answerVars, isTyping, timerVars,
                 agentLog, mounted, batched, now>>

handleRunAgent ==
  /\ event' = "run"
  /\ IF step = 6 /\ repoLink # <<>> /\ teamName # <<>> /\ leaderName # <<>>
     THEN /\ isLoading' = TRUE
          /\ agentTimers' = Append(agentTimers,
               [repoLink |-> repoLink, teamName |-> teamName, leaderName |-> leaderName])
     ELSE UNCHANGED <<isLoading, agentTimers>>
  /\ UNCHANGED <<history, step, currentText, answerVars, isTyping, timerVars,
                 agentLog, mounted, batched, now>>

\* mutant of AgentTimeout: the callback ends the loading state
AgentTimeoutResets ==
  /\ agentTimers # <<>>
  /\ event' = "agent"
  /\ agentLog' = Append(agentLog, Head(agentTimers))
  /\ agentTimers' = Tail(agentTimers)
  /\ isLoading' = FALSE
  /\ UNCHANGED <<history, step, currentText, answerVars, isTyping,
                 timerVars, mounted, batched, now>>

\* the setTimeout(..., 3000) callback of handleRunAgent
AgentTimeout ==
  /\ agentTimers # <<>>
  /\ event' = "agent"
  /\ agentLog' = Append(agentLog, Head(agentTimers))
  /\ agentTimers' = Tail(agentTimers)
  /\ UNCHANGED <<history, step, currentText, answerVars, isLoading, isTyping,
                 timerVars, mounted, batched, now>>

\* the component is torn down: the effect's cleanup clears the interval
Unmount ==
  /\ mounted
  /\ event' = "unmount"
  /\ mounted' = FALSE
  /\ intervalActive' = FALSE
  /\ UNCHANGED <<history, step, currentText, answerVars, isLoading, isTyping,
                 charIndex, targetText, settleTimers, agentVars, batched, now>>

\* ------------------------------------------------- events of the page ----
\* onChange of the hidden input
TypeText == InputRendered /\ \E value \in Texts : handleUserInputChange(value)

\* onKeyDown of the hidden input
PressKey == InputRendered /\ \E key \in Keys : handleKeyDown(key)

\* onClick of the Run Agent button, which is disabled unless isButtonEnabled
ClickRunAgent == ButtonClickable /\ handleRunAgent

Next ==
  \/ IntervalTick
  \/ SettleTimeout
  \/ TypeText
  \/ PressKey
  \/ ClickRunAgent
  \/ AgentTimeout
  \/ Unmount

Spec == Init /\ [][Next]_vars

\* ------------------------------- the handlers as callable operations ----
\* The same machine with the three handlers invoked in whatever state the
\* mounted component is in, as the operations updateUserText, commitUser
\* and invoke of the buffer and the gate.
CallUserInputChange == mounted /\ \E value \in Texts : handleUserInputChange(value)

CallKeyDown == mounted /\ \E key \in Keys : handleKeyDown(key)

CallRunAgent ==
  /\ mounted
  /\ Len(agentTimers) + Len(agentLog) < MaxRuns
  /\ handleRunAgent

NextOps ==
  \/ IntervalTick
  \/ SettleTimeout
  \/ CallUserInputChange
  \/ CallKeyDown
  \/ CallRunAgent
  \/ AgentTimeout
  \/ Unmount

SpecOps == Init /\ [][NextOps]_vars

\* ------------------------------ the page with stray change events ----
\* The page, with handleUserInputChange also called at the steps at which
\* the input is not rendered.
NextChange == Next \/ CallUserInputChange

SpecChange == Init /\ [][NextChange]_vars

\* ------------------------------------- a session that runs to its end ----
\* The page while it stays mounted.  The browser runs a timer callback that
\* is due, and the user goes on entering a non-blank text and confirming it
\* for as long as the input asks for one.
TypeAnswer ==
  /\ InputRendered
  /\ \E value \in Texts : Trim(value) # <<>> /\ handleUserInputChange(value)

ConfirmAnswer == PressKey /\ step' # step

NextLive ==
  \/ IntervalTick
  \/ SettleTimeout
  \/ TypeText
  \/ PressKey
  \/ ClickRunAgent
  \/ AgentTimeout

SpecLive ==
  /\ Init
  /\ [][NextLive]_vars
  /\ WF_vars(IntervalTick)
  /\ WF_vars(SettleTimeout)
  /\ WF_vars(TypeAnswer)
  /\ SF_vars(ConfirmAnswer)

\* ============================================================ claims ====
\* text that is empty or consists of spaces only
IsBlank(s) == \A i \in 1..Len(s) : s[i] = " "

\* text without a space at either end
IsTrimmed(s) == s = <<>> \/ (s[1] # " " /\ s[Len(s)] # " ")

IsPrefix(p, s) == Len(p) <= Len(s) /\ SubSeq(s, 1, Len(p)) = p

\* C1: every transition leaves step as it is or increases it by exactly 1;
\* step never decreases and never jumps by 2 or more.
C1_StepAdvancesByOne == [][step' = step \/ step' = step + 1]_vars

\* the session has run through to DONE, the last advance being a user confirm
C1_Witness == step = DONE /\ event = "enter"

\* C2: in every reachable state 0 <= step <= 2*N.
C2_StepInRange == 0 <= step /\ step <= 2 * N

\* DONE has been reached and the run action invoked
C2_Witness == step = 2 * N /\ isLoading

\* C3: in every reachable state the length of History equals step; History
\* has 2N lines at DONE.
C3_HistoryLengthIsStep == Len(history) = step /\ (step = DONE => Len(history) = 2 * N)

\* one line per completed step, all six of them
C3_Witness == Len(history) = 2 * N /\ step = DONE /\ ~isLoading

\* C4: a confirm whose CurrentText is empty or whitespace-only changes
\* neither History, step, the Answers slots nor CurrentText.
C4_BlankConfirmChangesNothing ==
  [][(event' = "enter" /\ IsBlank(currentText))
       => UNCHANGED <<history, step, repoLink, teamName, leaderName, currentText>>]_vars

\* a whitespace-only text was confirmed while awaiting answer 2
C4_Witness ==
  /\ event = "enter"
  /\ step = 3
  /\ currentText # <<>> /\ IsBlank(currentText)
  /\ teamName = <<>>
  /\ Len(history) = 3

C6_EnabledRule ==
  /\ isButtonEnabled <=>
       (step = DONE /\ ActionState # "RUNNING" /\ \A i \in 0..(N - 1) : Answers[i] # <<>>)
  /\ (step < DONE => ~isButtonEnabled)

\* the action is enabled, and has not been invoked
C6_Witness == isButtonEnabled /\ step = DONE /\ agentTimers = <<>> /\ agentLog = <<>>

\* C7: ActionState only moves IDLE -> ENABLED -> RUNNING; it becomes ENABLED
\* when step reaches DONE, an invocation moves it to RUNNING, and once
\* isLoading is true nothing sets it back.
C7_ActionStateLifecycle ==
  /\ [](step = DONE => ActionState # "IDLE")
  /\ [][/\ (isLoading => isLoading')
        /\ <<ActionState, ActionState'>> \in
             {<<"IDLE", "IDLE">>, <<"IDLE", "ENABLED">>, <<"ENABLED", "ENABLED">>,
              <<"ENABLED", "RUNNING">>, <<"RUNNING", "RUNNING">>}
        /\ ((ActionState = "IDLE" /\ ActionState' = "ENABLED")
              => (step = DONE - 1 /\ step' = DONE))
        /\ ((ActionState = "ENABLED" /\ ActionState' = "RUNNING") => event' = "run")]_vars

\* the post-invocation timer has fired and the action is still RUNNING
C7_Witness == ActionState = "RUNNING" /\ agentLog # <<>> /\ agentTimers = <<>>

\* C8: an invocation of the run action while step < DONE changes no state
\* variable and schedules no handoff.
C8_EarlyInvocationRejected ==
  [][(event' = "run" /\ step < DONE)
       => UNCHANGED <<history, step, currentText, answerVars, isLoading, isTyping,
                      timerVars, agentVars, mounted, batched, now>>]_vars

\* the run action was invoked with two of the three answers collected
C8_Witness ==
  /\ event = "run"
  /\ step = DONE - 1
  /\ repoLink # <<>> /\ teamName # <<>>
  /\ ~isLoading /\ agentTimers = <<>> /\ agentLog = <<>>

\* C9: History alternates: line i (from 0) is the SYSTEM line of Prompt[i/2]
\* when i is even and the USER line of the trimmed Answers[(i-1)/2] when i
\* is odd, the answer being the confirmed text without its surrounding spaces.
C9_HistoryIsAlternatingRecord ==
  /\ [](\A j \in 1..Len(history) :
           IF (j - 1) % 2 = 0
           THEN /\ history[j].type = "system"
                /\ history[j].text = PROMPTS[((j - 1) \div 2) + 1]
           ELSE /\ history[j].type = "user"
                /\ history[j].text = Answers[(j - 2) \div 2]
                /\ history[j].text # <<>>
                /\ IsTrimmed(history[j].text))
  /\ [][(event' = "enter" /\ step' # step)
          => \E l, r \in 0..Len(currentText) :
               currentText = Spaces(l) \o history'[Len(history')].text \o Spaces(r)]_vars

\* the session is complete with different answers in the first two slots
C9_Witness ==
  /\ Len(history) = DONE
  /\ repoLink = <<"a">>
  /\ teamName = <<"a", " ", "a">>
  /\ leaderName = <<"a">>

\* C10: during an even step k < 2N CurrentText is a prefix of Prompt[k/2],
\* each tick extends it by exactly the next character, and the SYSTEM line
\* is committed only after CurrentText equals the whole prompt, with that text.
C10_AutoTypeEmitsPromptInOrder ==
  /\ []((step % 2 = 0 /\ step < DONE)
          => IsPrefix(currentText, PROMPTS[(step \div 2) + 1]))
  /\ [][(event' = "interval" /\ isTyping')
          => currentText' = SubSeq(PROMPTS[(step \div 2) + 1], 1, Len(currentText) + 1)]_vars
  /\ [][(event' = "settle" /\ step' # step)
          => /\ currentText = PROMPTS[(step \div 2) + 1]
             /\ history'[Len(history')].text = PROMPTS[(step \div 2) + 1]]_vars

\* C11: when the step changes or the component is torn down, every
\* outstanding auto-type timer of the step being left is cancelled: a pending
\* interval or settle timeout belongs to the current step of a mounted
\* component, and after the teardown no timer writes a character, appends a
\* line or advances step.
C11_TimersOfLeftStepCancelled ==
  /\ [](~mounted => (~intervalActive /\ settleTimers = <<>>))
  /\ []((intervalActive \/ settleTimers # <<>>) => (step % 2 = 0 /\ step < DONE))
  /\ [](\A k \in 1..Len(settleTimers) : settleTimers[k].text = PROMPTS[(step \div 2) + 1])
  /\ [][~mounted => UNCHANGED <<currentText, history, step>>]_vars

\* C12: Answers slot i is written only by the user commit at step 2i+1, with
\* the confirmed text without its surrounding spaces; no other slot is
\* written by that commit, and a slot once set never changes.
C12_AnswerWrittenOnceAtItsStep ==
  [][\A i \in 0..(N - 1) :
       /\ (Answers[i] # <<>> => Answers[i]' = Answers[i])
       /\ (Answers[i]' # Answers[i]
             => /\ event' = "enter"
                /\ step = 2 * i + 1 /\ step' = step + 1
                /\ Answers[i]' # <<>> /\ IsTrimmed(Answers[i]')
                /\ \E l, r \in 0..Len(currentText) :
                     currentText = Spaces(l) \o Answers[i]' \o Spaces(r)
                /\ \A j \in 0..(N - 1) : j # i => Answers[j]' = Answers[j])]_vars

\* the third slot has just been written, the first two holding older answers
C12_Witness ==
  /\ event = "enter"
  /\ step = DONE
  /\ leaderName = <<"a", " ", "a">>
  /\ repoLink = <<"a">>
  /\ teamName = <<"a">>

\* C13: History is append-only: the History before a transition is a prefix
\* of the History after it, and at most one Line is appended.
C13_HistoryAppendOnly ==
  [][/\ IsPrefix(history, history')
     /\ Len(history') <= Len(history) + 1]_vars

\* a USER line has been appended behind a SYSTEM line
C13_Witness ==
  /\ Len(history) = 2
  /\ event = "enter"
  /\ history[1].type = "system"
  /\ history[2].type = "user"

\* C14: with the timers firing and the user confirming a non-empty answer at
\* each odd step the terminal eventually reaches step = 2N with the action
\* enabled; at an odd step no timer is pending and only a user confirm
\* advances step.
C14_Progress ==
  /\ <>(step = DONE /\ isButtonEnabled)
  /\ [](step % 2 = 1 => (~intervalActive /\ settleTimers = <<>>))
  /\ [][(step % 2 = 1 /\ step' # step) => event' = "enter"]_vars

\* the third confirm has just enabled the action
C14_Witness == isButtonEnabled /\ event = "enter" /\ Len(history) = DONE

\* the handoffs scheduled or delivered so far
Handoffs == agentTimers \o agentLog

\* C15: no invocation while RUNNING changes state or schedules a further
\* handoff; the three Answers are handed to the executor at most once.
C15_HandoffAtMostOnce ==
  /\ [](Len(Handoffs) <= 1)
  /\ [](\A k \in 1..Len(Handoffs) :
          /\ isLoading
          /\ Handoffs[k] = [repoLink |-> Answers[0], teamName |-> Answers[1],
                            leaderName |-> Answers[2]]
          /\ \A i \in 0..(N - 1) : Answers[i] # <<>>)
  /\ [][isLoading => (isLoading' /\ Len(Handoffs') = Len(Handoffs))]_vars
  /\ [][(event' = "run" /\ isLoading)
          => UNCHANGED <<history, step, currentText, answerVars, isLoading, isTyping,
                         timerVars, agentVars, mounted, batched, now>>]_vars

\* the one handoff has been delivered with the answers of the session
C15_Witness ==
  /\ isLoading
  /\ Len(agentLog) = 1
  /\ agentLog[1].teamName = <<"a", " ", "a">>
  /\ agentLog[1].repoLink = <<"a">>

\* C16: a text-change event changes nothing when step is even or auto-typing
\* is in progress; at an odd step it replaces CurrentText by the text of the
\* event and changes nothing else.
C16_TextChangeFrame ==
  [][event' = "change"
       => /\ UNCHANGED <<history, step, answerVars, isLoading, isTyping, timerVars,
                         agentVars, mounted, batched, now>>
          /\ ((step % 2 = 0 \/ isTyping) => currentText' = currentText)
          /\ (step % 2 = 1 => currentText' \in Texts)]_vars

\* a change event arrived in the middle of an animation and left its text alone
C16_Witness ==
  /\ event = "change"
  /\ step = 2
  /\ isTyping
  /\ currentText # <<>>
  /\ intervalActive

\* C17: the auto-typing flag or a pending auto-type timer implies an even
\* step below 2N; at odd steps and at DONE the flag is false and no timer is
\* outstanding; at most one auto-type timer is outstanding.
C17_AutoTypeOnlyAtEvenSteps ==
  /\ (isTyping \/ intervalActive \/ settleTimers # <<>>) => (step % 2 = 0 /\ step < DONE)
  /\ (step % 2 = 1 \/ step = DONE) => (~isTyping /\ ~intervalActive /\ settleTimers = <<>>)
  /\ (IF intervalActive THEN 1 ELSE 0) + Len(settleTimers) <= 1

\* the settle window of the third prompt: the timeout alone is outstanding
C17_Witness ==
  /\ step = 4
  /\ ~isTyping
  /\ ~intervalActive
  /\ Len(settleTimers) = 1
  /\ mounted

\* C18: the ids of the lines in History are pairwise distinct.
C18_LineIdsDistinct ==
  \A i, j \in 1..Len(history) : i # j => history[i].id # history[j].id

\* C19: Answers slot i is non-empty iff step > 2i+1; at step 6 all three are
\* non-empty, so the action is enabled or running.
C19_AnswersFollowStep ==
  /\ \A i \in 0..(N - 1) : (Answers[i] # <<>>) <=> (step > 2 * i + 1)
  /\ step = 6 => (isButtonEnabled \/ isLoading)

\* two answers are in, the third prompt is being typed
C19_Witness ==
  /\ step = 4
  /\ repoLink # <<>>
  /\ teamName # <<>>
  /\ leaderName = <<>>
  /\ isTyping

\* C20: once step = 2N no event changes step, History, CurrentText, which
\* stays empty, or an Answers slot.
C20_DoneIsAbsorbing ==
  /\ [](step = DONE => currentText = <<>>)
  /\ [][step = DONE => UNCHANGED <<step, history, currentText, answerVars>>]_vars

\* a change event arrived after DONE, the action running
C20_Witness ==
  /\ step = DONE
  /\ event = "change"
  /\ isLoading
  /\ Len(history) = DONE

====
